---- MODULE Spec2Model ----
(***************************************************************************)
(* Model of src/src/shutterfly_main.py: the ingestion of customer events   *)
(* into the sqlite tables Customer, SiteVisit, ImageUploaded and Orders,   *)
(* the construction of the analytics table customer_LTV and the top-N      *)
(* query over it.                                                          *)
(*                                                                         *)
(* Tables are sets of rows; the PRIMARY KEY and FOREIGN KEY constraints of *)
(* create_tables are checked by the insert and update operators as sqlite  *)
(* checks them (foreign_keys = 1).  The columns tags, camera_make and      *)
(* camera_model are written once and never read; they are left out of the  *)
(* rows.  Arithmetic on REAL values is exact rational arithmetic here      *)
(* (floating point rounding is not modelled).                              *)
(***************************************************************************)
EXTENDS Integers, Sequences, FiniteSets, TLC

VARIABLES pc, n, i, ev, Customer, SiteVisit, ImageUploaded, Orders,
          customer_LTV, top_n, topX, runs, history, dropped

\* runs counts the calls of build_LTV_table on this database.  dropped is a
\* history variable, kept by the specifications that start with history =
\* TRUE: the (type, key, customer_id) of the SITE_VISIT, IMAGE and ORDER NEW
\* events that were dispatched while their customer had no row, and whose
\* key no later event of the type has carried.
vars == <<pc, n, i, ev, Customer, SiteVisit, ImageUploaded, Orders,
          customer_LTV, top_n, topX, runs, history, dropped>>

tables == <<Customer, SiteVisit, ImageUploaded, Orders>>

(***************************************************************************)
(* Bounds of the model.                                                    *)
(***************************************************************************)
\* longest event list read from the input file
MaxEvents == 4
\* most SiteVisit rows of a store handed to the aggregation directly
MaxVisits == 4
\* most Orders rows of a store handed to the aggregation directly
MaxOrders == 2
\* largest top_n asked of the top-N query
MaxN == 3

\* most SiteVisit rows of a database that receives further events
MaxLoadedVisits == 2
\* most calls of build_LTV_table on one database
MaxRuns == 2

\* the configured top-N count of main
TOP_N == 3

(***************************************************************************)
(* JSON values.  A field that the event dict does not hold is Absent, a    *)
(* JSON null (Python None, SQL NULL) is Null.  JSON numbers are the        *)
(* tokens of JsonNumbers; every other value is a JSON string.              *)
(***************************************************************************)
Absent == "<absent>"
Null == "<null>"

JsonNumbers == {"n:300", "n:50"}

IsString(v) == v \notin JsonNumbers /\ v # Null /\ v # Absent

\* the REAL that sqlite stores for a total_amount bound to an INSERT or
\* written as a quoted literal in an UPDATE (column affinity REAL)
AmountValue(v) ==
    CASE v \in {"n:300", "300"} -> 300
      [] v \in {"n:50", "50"}   -> 50
      [] v = "-15"              -> 0 - 15
      [] OTHER                  -> 0

\* event_time values: ISO dates, and one text that is no date
T0 == "2017-01-01"
T3 == "2017-01-04"
T21 == "2017-01-22"
BadTime == "garbage"
Dates == {T0, T3, T21}

\* julianday(t), as days after 2017-01-01; defined on Dates only
\* (julianday of any other text is NULL)
julianday(t) ==
    CASE t = T0  -> 0
      [] t = T3  -> 3
      [] t = T21 -> 21

\* position of a text in sqlite's BINARY collation, which max() and min()
\* compare by: digits sort before letters
TextRank(t) ==
    CASE t = T0  -> 0
      [] t = T3  -> 1
      [] t = T21 -> 2
      [] OTHER   -> 3

CustIds == {"c1", "c2"}
PageIds == {"p1", "p2"}
ImageIds == {"i1"}
OrderIds == {"o1", "o2"}

(***************************************************************************)
(* Events: the dicts of the list json.load returns.                        *)
(***************************************************************************)
Ev(ty, vb, k, et, cid, ln, city, st, amt, oid) ==
    [type |-> ty, verb |-> vb, key |-> k, event_time |-> et,
     customer_id |-> cid, last_name |-> ln, adr_city |-> city,
     adr_state |-> st, total_amount |-> amt, order_id |-> oid]

NoEvent ==
    Ev("<none>", Absent, Absent, Absent, Absent, Absent, Absent, Absent,
       Absent, Absent)

EventFields ==
    {"type", "verb", "key", "event_time", "customer_id", "last_name",
     "adr_city", "adr_state", "total_amount", "order_id"}

\* payloads of CUSTOMER UPDATE events: <<event_time, last_name, adr_city,
\* adr_state, customer_id>>
CustomerPatches ==
    { <<"", "", "", "", Absent>>,
      <<"", "", "Y", "", Absent>>,
      <<Absent, "B", Absent, Absent, Absent>>,
      <<T21, "", "", "T", Absent>>,
      <<T21, "B", "Y", "T", Absent>>,
      <<"", "", "", "", "c2">> }

CustomerEvents ==
    { Ev("CUSTOMER", "NEW", k, T0, Absent, "A", "X", "S", Absent, Absent) :
        k \in CustIds \cup {Absent} }
    \cup { Ev("CUSTOMER", "NEW", "c1", T0, Absent, Absent, "X", "S", Absent,
              Absent) }
    \cup { Ev("CUSTOMER", "UPDATE", k, p[1], p[5], p[2], p[3], p[4], Absent,
              Absent) : k \in CustIds \cup {Absent}, p \in CustomerPatches }
    \cup { Ev("CUSTOMER", Absent, "c1", T0, Absent, "A", "X", "S", Absent,
              Absent) }

SiteVisitEvents ==
    { Ev("SITE_VISIT", Absent, k, t, c, Absent, Absent, Absent, Absent,
         Absent) :
        k \in PageIds, t \in {T0, T21, BadTime}, c \in CustIds \cup {Null} }
    \cup { Ev("SITE_VISIT", Absent, Absent, T0, "c1", Absent, Absent, Absent,
              Absent, Absent),
           Ev("SITE_VISIT", Absent, "p1", T0, Absent, Absent, Absent, Absent,
              Absent, Absent) }

ImageEvents ==
    { Ev("IMAGE", Absent, k, T0, c, Absent, Absent, Absent, Absent, Absent) :
        k \in ImageIds, c \in CustIds \cup {Null} }
    \cup { Ev("IMAGE", Absent, Absent, T0, "c1", Absent, Absent, Absent,
              Absent, Absent) }

\* payloads of ORDER UPDATE events: <<event_time, total_amount, customer_id,
\* order_id>>
OrderPatches ==
    { <<"", "", Absent, Absent>>,
      <<"", "50", Absent, Absent>>,
      <<T21, "n:50", Absent, Absent>>,
      <<T21, "", Absent, Absent>>,
      <<"", "50", "c2", Absent>>,
      <<"", "", Absent, "o2">> }

OrderEvents ==
    { Ev("ORDER", "NEW", k, T0, c, Absent, Absent, Absent, a, Absent) :
        k \in OrderIds, c \in CustIds \cup {Null}, a \in {"n:300", "-15"} }
    \cup { Ev("ORDER", "NEW", Absent, T0, "c1", Absent, Absent, Absent,
              "n:300", Absent) }
    \cup { Ev("ORDER", "UPDATE", k, p[1], p[3], Absent, Absent, Absent, p[2],
              p[4]) : k \in OrderIds \cup {Absent}, p \in OrderPatches }
    \cup { Ev("ORDER", Absent, "o1", T0, "c1", Absent, Absent, Absent,
              "n:300", Absent) }

OtherEvents ==
    { Ev("PAGE_VIEW", Absent, "x1", T0, "c1", Absent, Absent, Absent, Absent,
         Absent),
      Ev(Absent, Absent, "x1", T0, "c1", Absent, Absent, Absent, Absent,
         Absent) }

(***************************************************************************)
(* The schema of create_tables.                                            *)
(***************************************************************************)
CustomerColumns ==
    {"customer_id", "event_time", "last_name", "adr_city", "adr_state"}
OrdersColumns == {"order_id", "event_time", "customer_id", "total_amount"}

\* FOREIGN KEY(customer_id) REFERENCES customer(customer_id): a child row
\* with a NULL customer_id is exempt from the constraint
ForeignKeyOk(cid, customers) ==
    cid = Null \/ \E r \in customers : r.customer_id = cid

\* the rows of the three child tables that reference customer cid
HasChildren(cid) ==
    \/ \E r \in SiteVisit : r.customer_id = cid
    \/ \E r \in ImageUploaded : r.customer_id = cid
    \/ \E r \in Orders : r.customer_id = cid

\* what a try body did: it raised (and changed nothing), or it left rows
Raised(rows) == [raised |-> TRUE, rows |-> rows]
Done(rows) == [raised |-> FALSE, rows |-> rows]

\* the except clauses build the warning from event['key']: with no key the
\* handler itself raises KeyError, which leaves the ingester
HandlerRaises(e) == e.key = Absent

\* (variant: the loop without its test value != '')
SetFieldsEmptyToo(e, excluded) ==
    { f \in EventFields : e[f] # Absent /\ f \notin excluded }

\* the fields an UPDATE loop puts in its SET list
SetFields(e, excluded) ==
    { f \in EventFields : e[f] # Absent /\ e[f] # "" /\ f \notin excluded }

(***************************************************************************)
(* customer_ingest                                                         *)
(***************************************************************************)
\* (variant: INSERT OR REPLACE INTO customer)
CustomerInsertOrReplace(e) ==
    IF \E f \in {"key", "event_time", "last_name", "adr_city", "adr_state"} :
          e[f] = Absent
    THEN Raised(Customer)
    ELSE Done({r \in Customer : r.customer_id # e.key} \cup
              {[customer_id |-> e.key, event_time |-> e.event_time,
                last_name |-> e.last_name, adr_city |-> e.adr_city,
                adr_state |-> e.adr_state]})

\* INSERT INTO customer VALUES (?,?,?,?,?)
CustomerInsert(e) ==
    IF \E f \in {"key", "event_time", "last_name", "adr_city", "adr_state"} :
          e[f] = Absent
    THEN Raised(Customer)                                     \* KeyError
    ELSE IF \E r \in Customer : r.customer_id = e.key
    THEN Raised(Customer)                   \* UNIQUE constraint failed
    ELSE Done(Customer \cup
              {[customer_id |-> e.key, event_time |-> e.event_time,
                last_name |-> e.last_name, adr_city |-> e.adr_city,
                adr_state |-> e.adr_state]})

CustomerPatched(r, e, fields) ==
    [c \in CustomerColumns |-> IF c \in fields THEN e[c] ELSE r[c]]

\* (variant: the UPDATE without its where clause)
CustomerWhereAll(e) == Customer

\* where customer_id="<key>"
CustomerWhere(e) == {r \in Customer : r.customer_id = e.key}

\* the customers that a row of a child table references
Referenced ==
    {q.customer_id : q \in {r \in Customer : HasChildren(r.customer_id)}}

\* the UPDATE, the customers of referenced having child rows
CustomerUpdateGiven(e, referenced) ==
    LET fields == SetFields(e, {"type", "verb", "key"})
        hit == CustomerWhere(e)
        rest == Customer \ hit
        new == {CustomerPatched(r, e, fields) : r \in hit}
    IN  IF \E f \in fields : ~IsString(e[f])
        THEN Raised(Customer)                     \* TypeError: str + value
        ELSE IF e.key = Absent
        THEN Raised(Customer)                                 \* KeyError
        ELSE IF fields = {} \/ ~(fields \subseteq CustomerColumns)
        THEN Raised(Customer)        \* syntax error / no such column
        ELSE IF \E r \in new : \E q \in rest : q.customer_id = r.customer_id
        THEN Raised(Customer)               \* UNIQUE constraint failed
        ELSE IF \E r \in hit :
                  /\ r.customer_id \in referenced
                  /\ \A q \in new : q.customer_id # r.customer_id
        THEN Raised(Customer)          \* FOREIGN KEY constraint failed
        ELSE Done(rest \cup new)

CustomerUpdate(e) == CustomerUpdateGiven(e, Referenced)

customer_ingest(e) ==
    CASE e.verb = "NEW"    -> CustomerInsert(e)
      [] e.verb = "UPDATE" -> CustomerUpdate(e)
      [] OTHER             -> Done(Customer)

(***************************************************************************)
(* sitevisit_ingest, imageuploded_ingest                                   *)
(***************************************************************************)
sitevisit_ingest(e) ==
    IF \E f \in {"key", "event_time", "customer_id"} : e[f] = Absent
    THEN Raised(SiteVisit)                                    \* KeyError
    ELSE IF \E r \in SiteVisit : r.page_id = e.key
    THEN Raised(SiteVisit)                  \* UNIQUE constraint failed
    ELSE IF ~ForeignKeyOk(e.customer_id, Customer)
    THEN Raised(SiteVisit)             \* FOREIGN KEY constraint failed
    ELSE Done(SiteVisit \cup
              {[page_id |-> e.key, event_time |-> e.event_time,
                customer_id |-> e.customer_id]})

imageuploded_ingest(e) ==
    IF \E f \in {"key", "event_time", "customer_id"} : e[f] = Absent
    THEN Raised(ImageUploaded)
    ELSE IF \E r \in ImageUploaded : r.image_id = e.key
    THEN Raised(ImageUploaded)
    ELSE IF ~ForeignKeyOk(e.customer_id, Customer)
    THEN Raised(ImageUploaded)
    ELSE Done(ImageUploaded \cup
              {[image_id |-> e.key, event_time |-> e.event_time,
                customer_id |-> e.customer_id]})

(***************************************************************************)
(* order_ingest                                                            *)
(***************************************************************************)
OrderInsert(e) ==
    IF \E f \in {"key", "event_time", "customer_id", "total_amount"} :
          e[f] = Absent
    THEN Raised(Orders)
    ELSE IF \E r \in Orders : r.order_id = e.key
    THEN Raised(Orders)
    ELSE IF ~ForeignKeyOk(e.customer_id, Customer)
    THEN Raised(Orders)
    ELSE Done(Orders \cup
              {[order_id |-> e.key, event_time |-> e.event_time,
                customer_id |-> e.customer_id,
                total_amount |-> AmountValue(e.total_amount)]})

OrderPatched(r, e, fields) ==
    [c \in OrdersColumns |->
        IF c \notin fields THEN r[c]
        ELSE IF c = "total_amount" THEN AmountValue(e[c])
        ELSE e[c]]

\* the fields the UPDATE loop of order_ingest leaves out of the SET list
OrderExcluded == {"type", "verb", "key", "customer_id"}

\* where order_id="<key>"
OrdersWhere(e) == {r \in Orders : r.order_id = e.key}

OrderUpdate(e) ==
    LET fields == SetFields(e, OrderExcluded)
        hit == OrdersWhere(e)
        rest == Orders \ hit
        new == {OrderPatched(r, e, fields) : r \in hit}
    IN  IF \E f \in fields : ~IsString(e[f])
        THEN Raised(Orders)                       \* TypeError: str + value
        ELSE IF e.key = Absent
        THEN Raised(Orders)
        ELSE IF fields = {} \/ ~(fields \subseteq OrdersColumns)
        THEN Raised(Orders)
        ELSE IF \E r \in new : \E q \in rest : q.order_id = r.order_id
        THEN Raised(Orders)
        ELSE Done(rest \cup new)

order_ingest(e) ==
    CASE e.verb = "NEW"    -> OrderInsert(e)
      [] e.verb = "UPDATE" -> OrderUpdate(e)
      [] OTHER             -> Done(Orders)

(***************************************************************************)
(* Ingest: one iteration of the loop over event_dict.  An exception that   *)
(* leaves an ingester, or the KeyError of event_dict[i]['verb'], reaches   *)
(* the except clause of Ingest, which calls exit(100).                     *)
(***************************************************************************)
\* the history of the dependent events dispatched before their customer
DroppedAfter(e) ==
    IF ~history \/ e.type \notin {"SITE_VISIT", "IMAGE", "ORDER"}
       \/ e.key = Absent
    THEN dropped
    ELSE LET others == {d \in dropped : d[1] # e.type \/ d[2] # e.key}
         IN  IF /\ e.type = "ORDER" => e.verb = "NEW"
                /\ e.customer_id \in CustIds
                /\ \A r \in Customer : r.customer_id # e.customer_id
             THEN others \cup {<<e.type, e.key, e.customer_id>>}
             ELSE others

Iteration(e, escaped) ==
    /\ pc = "ingest"
    /\ i < n
    /\ i' = i + 1
    /\ ev' = e
    /\ pc' = IF escaped THEN "exit" ELSE "ingest"
    /\ dropped' = DroppedAfter(e)
    /\ UNCHANGED <<n, customer_LTV, top_n, topX, runs, history>>

IngestCustomer ==
    \E e \in CustomerEvents :
        LET res == customer_ingest(e)
            escaped == e.verb = Absent \/ (res.raised /\ HandlerRaises(e))
        IN  /\ Iteration(e, escaped)
            /\ Customer' = IF e.verb = Absent THEN Customer ELSE res.rows
            /\ UNCHANGED <<SiteVisit, ImageUploaded, Orders>>

IngestSiteVisit ==
    \E e \in SiteVisitEvents :
        LET res == sitevisit_ingest(e)
        IN  /\ Iteration(e, res.raised /\ HandlerRaises(e))
            /\ SiteVisit' = res.rows
            /\ UNCHANGED <<Customer, ImageUploaded, Orders>>

IngestImage ==
    \E e \in ImageEvents :
        LET res == imageuploded_ingest(e)
        IN  /\ Iteration(e, res.raised /\ HandlerRaises(e))
            /\ ImageUploaded' = res.rows
            /\ UNCHANGED <<Customer, SiteVisit, Orders>>

IngestOrder ==
    \E e \in OrderEvents :
        LET res == order_ingest(e)
            escaped == e.verb = Absent \/ (res.raised /\ HandlerRaises(e))
        IN  /\ Iteration(e, escaped)
            /\ Orders' = IF e.verb = Absent THEN Orders ELSE res.rows
            /\ UNCHANGED <<Customer, SiteVisit, ImageUploaded>>

\* (variant: event_dict[i]['type'] in place of event_dict[i].get('type'))
IngestOtherStrict ==
    \E e \in OtherEvents :
        /\ Iteration(e, e.type = Absent)
        /\ UNCHANGED tables

\* no branch of the if / elif chain takes the event
IngestOther ==
    \E e \in OtherEvents :
        /\ Iteration(e, FALSE)
        /\ UNCHANGED tables

(***************************************************************************)
(* Exact rationals for the REAL values of the analytics table: a record    *)
(* [num, den] in lowest terms with den > 0.                                *)
(***************************************************************************)
Abs(x) == IF x < 0 THEN 0 - x ELSE x

RECURSIVE GCD(_, _)
GCD(a, b) == IF b = 0 THEN a ELSE GCD(b, a % b)

Rat(a, b) ==
    LET g == GCD(Abs(a), Abs(b))
        s == IF b < 0 THEN 0 - 1 ELSE 1
    IN  [num |-> (s * a) \div g, den |-> (s * b) \div g]

FromInt(x) == [num |-> x, den |-> 1]
RatMul(p, q) == Rat(p.num * q.num, p.den * q.den)
RatDiv(p, q) == Rat(p.num * q.den, p.den * q.num)
RatLess(p, q) == p.num * q.den < q.num * p.den

\* (variant: math.floor in place of int)
FloorDiv(a, b) == a \div b

\* Python's int(x) of the float a / b, b > 0: truncation toward zero
TruncDiv(a, b) == IF a >= 0 THEN a \div b ELSE 0 - ((0 - a) \div b)

(***************************************************************************)
(* build_LTV_table                                                         *)
(***************************************************************************)
\* Select distinct(customer_id) from customer
distinct_Customers == {r.customer_id : r \in Customer}

VisitsOf(c) == {r \in SiteVisit : r.customer_id = c}
OrdersOf(c) == {r \in Orders : r.customer_id = c}

\* Select count(*) from SiteVisit where customer_id=c
NoOfVisits(c) == Cardinality(VisitsOf(c))

RECURSIVE SumAmounts(_)
SumAmounts(rows) ==
    IF rows = {} THEN 0
    ELSE LET r == CHOOSE x \in rows : TRUE
         IN  r.total_amount + SumAmounts(rows \ {r})

\* Select sum(total_amount) from Orders where customer_id=c: a float over
\* at least one row, NULL (None) over no row
\* (variant: total(total_amount), which is 0.0 over no row)
ExpenditureAlwaysFloat(c) == TRUE

ExpenditureIsFloat(c) == OrdersOf(c) # {}

\* (variant: the sum without its where clause)
total_expenditureOfAll(c) == SumAmounts(Orders)

total_expenditure(c) == SumAmounts(OrdersOf(c))

\* max(event_time), min(event_time) over the customer's visits
MaxTime(c) ==
    CHOOSE t \in {r.event_time : r \in VisitsOf(c)} :
        \A r \in VisitsOf(c) : TextRank(r.event_time) <= TextRank(t)
MinTime(c) ==
    CHOOSE t \in {r.event_time : r \in VisitsOf(c)} :
        \A r \in VisitsOf(c) : TextRank(t) <= TextRank(r.event_time)

\* (julianday(max) - julianday(min)) / 7 is NULL (None) over no row and
\* when either text is no date
WeeksIsNone(c) ==
    VisitsOf(c) = {} \/ MaxTime(c) \notin Dates \/ MinTime(c) \notin Dates

\* (variant: the days counted inclusively)
DaysActiveInclusive(c) == julianday(MaxTime(c)) - julianday(MinTime(c)) + 1

DaysActive(c) == julianday(MaxTime(c)) - julianday(MinTime(c))
NoOfWeeks(c) == Rat(DaysActive(c), 7)

\* the if before the try: None != float(0) is True
Guard(c) ==
    /\ NoOfVisits(c) # 0
    /\ (WeeksIsNone(c) \/ DaysActive(c) # 0)
    /\ ExpenditureIsFloat(c)

\* the try body raises TypeError on NoOfVisits / None
ComputeRaises(c) == WeeksIsNone(c)

LTVRow(c) ==
    LET expenditure_pervisit == Rat(total_expenditure(c), NoOfVisits(c))
        site_visits_perweek == RatDiv(FromInt(NoOfVisits(c)), NoOfWeeks(c))
        truncated == TruncDiv(total_expenditure(c), NoOfVisits(c))
    IN  [Customer_id |-> c,
         NoofVisits |-> NoOfVisits(c),
         total_expenditure |-> total_expenditure(c),
         ExpenditurePerVisit |-> expenditure_pervisit,
         SiteVisitsPerWeek |-> site_visits_perweek,
         NoOfWeeks |-> NoOfWeeks(c),
         CLV |-> RatMul(RatMul(FromInt(52 * truncated), site_visits_perweek),
                        FromInt(10))]

\* (variant: the try around the loop over the customers, the failing
\* customer scanned first)
InsertedUntilFailure(ltv) ==
    IF \E c \in distinct_Customers : Guard(c) /\ ComputeRaises(c)
    THEN {}
    ELSE { c \in distinct_Customers :
            Guard(c) /\ \A r \in ltv : r.Customer_id # c }

\* the customers whose INSERT INTO customer_LTV succeeds (Customer_id is
\* the PRIMARY KEY of customer_LTV)
Inserted(ltv) ==
    { c \in distinct_Customers :
        /\ Guard(c)
        /\ ~ComputeRaises(c)
        /\ \A r \in ltv : r.Customer_id # c }

\* (variant: build_LTV_table called inside the loop)
LoopDoneEarly == pc = "ingest"

\* the loop of Ingest is over: every event of event_dict was dispatched
LoopDone == pc = "ingest" /\ i = n

build_LTV_table ==
    /\ LoopDone
    /\ customer_LTV' = customer_LTV \cup {LTVRow(c) : c \in Inserted(customer_LTV)}
    /\ pc' = "topx"
    /\ runs' = runs + 1
    /\ UNCHANGED <<n, i, ev, tables, top_n, topX, history, dropped>>

(***************************************************************************)
(* TopXSimpleLTVCustomers                                                  *)
(***************************************************************************)
\* (variant: order by CLV asc)
BeforeAscending(a, b) == RatLess(a.CLV, b.CLV)

\* a comes before b under ORDER BY CLV desc
Before(a, b) == RatLess(b.CLV, a.CLV)

\* r put into the sorted sequence s, after the rows it does not come before
RECURSIVE InsertSorted(_, _)
InsertSorted(r, s) ==
    IF s = <<>> THEN <<r>>
    ELSE IF Before(r, Head(s)) THEN <<r>> \o s
    ELSE <<Head(s)>> \o InsertSorted(r, Tail(s))

RECURSIVE OrderByCLV(_)
OrderByCLV(scan) ==
    IF scan = <<>> THEN <<>>
    ELSE InsertSorted(Head(scan), OrderByCLV(Tail(scan)))

Limit(s, k) == SubSeq(s, 1, IF k < Len(s) THEN k ELSE Len(s))

\* the orders in which sqlite may scan a table
Scans(rows) ==
    { s \in [1..Cardinality(rows) -> rows] :
        \A a, b \in 1..Cardinality(rows) : a # b => s[a] # s[b] }

\* select customer_id,CLV from customer_LTV order by CLV desc limit top_n;
\* rows of equal CLV come in an order sqlite does not fix
TopXSimpleLTVCustomers ==
    /\ pc = "topx"
    /\ \E scan \in Scans(customer_LTV) :
        LET sorted == Limit(OrderByCLV(scan), top_n)
        IN  topX' = [j \in 1..Len(sorted) |->
                        <<sorted[j].Customer_id, sorted[j].CLV>>]
    /\ pc' = "done"
    /\ UNCHANGED <<n, i, ev, tables, customer_LTV, top_n, runs, history,
                   dropped>>

Init ==
    /\ pc = "ingest"
    /\ n \in 0..MaxEvents
    /\ i = 0
    /\ ev = NoEvent
    /\ Customer = {}
    /\ SiteVisit = {}
    /\ ImageUploaded = {}
    /\ Orders = {}
    /\ customer_LTV = {}
    /\ top_n = TOP_N
    /\ topX = <<>>
    /\ runs = 0
    /\ history = FALSE
    /\ dropped = {}

Next ==
    \/ IngestCustomer
    \/ IngestSiteVisit
    \/ IngestImage
    \/ IngestOrder
    \/ IngestOther
    \/ build_LTV_table
    \/ TopXSimpleLTVCustomers

Spec == Init /\ [][Next]_vars

(***************************************************************************)
(* The aggregation and the top-N query over any store the ingestion can    *)
(* leave: Customer rows for the customers of ids, up to MaxVisits          *)
(* SiteVisit rows and up to MaxOrders Orders rows that reference them      *)
(* (one store per multiset of rows: the row keys are given in order).      *)
(* The event list that leaves such a store is the NEW events of its rows   *)
(* followed by an event of unknown type.                                   *)
(***************************************************************************)
PageNames == <<"p1", "p2", "p3", "p4", "p5", "p6">>
OrderNames == <<"o1", "o2", "o3", "o4">>
CustRank(c) == IF c = "c1" THEN 0 ELSE 1
Amounts == {300, 0 - 15}

VisitLists(ids) ==
    UNION { { s \in [1..k -> ids \X (Dates \cup {BadTime})] :
                \A j \in 1..(k - 1) :
                    \/ CustRank(s[j][1]) < CustRank(s[j + 1][1])
                    \/ /\ s[j][1] = s[j + 1][1]
                       /\ TextRank(s[j][2]) <= TextRank(s[j + 1][2]) } :
            k \in 0..MaxVisits }

OrderLists(ids) ==
    UNION { { s \in [1..k -> ids \X Amounts] :
                \A j \in 1..(k - 1) :
                    \/ CustRank(s[j][1]) < CustRank(s[j + 1][1])
                    \/ /\ s[j][1] = s[j + 1][1]
                       /\ s[j][2] <= s[j + 1][2] } :
            k \in 0..MaxOrders }

InitLTV ==
    /\ pc = "ingest"
    /\ \E ids \in SUBSET CustIds :
        /\ Customer = {[customer_id |-> c, event_time |-> T0,
                        last_name |-> "A", adr_city |-> "X",
                        adr_state |-> "S"] : c \in ids}
        /\ \E vs \in VisitLists(ids) :
            SiteVisit = {[page_id |-> PageNames[j], event_time |-> vs[j][2],
                          customer_id |-> vs[j][1]] : j \in 1..Len(vs)}
        /\ \E os \in OrderLists(ids) :
            Orders = {[order_id |-> OrderNames[j], event_time |-> T0,
                       customer_id |-> os[j][1],
                       total_amount |-> os[j][2]] : j \in 1..Len(os)}
    /\ ImageUploaded = {}
    /\ n = Cardinality(Customer) + Cardinality(SiteVisit)
             + Cardinality(Orders) + 1
    /\ i = n
    /\ ev = Ev("PAGE_VIEW", Absent, "x1", T0, "c1", Absent, Absent, Absent,
               Absent, Absent)
    /\ customer_LTV = {}
    /\ top_n \in 0..MaxN
    /\ topX = <<>>
    /\ runs = 0
    /\ history = FALSE
    /\ dropped = {}

NextLTV ==
    \/ build_LTV_table
    \/ TopXSimpleLTVCustomers

SpecLTV == InitLTV /\ [][NextLTV]_vars

(***************************************************************************)
(* The last event of a run: the loop of Ingest has dispatched the events   *)
(* that loaded the database and one event remains; then the aggregation    *)
(* and the top-N query.                                                    *)
(***************************************************************************)
InitTail ==
    /\ pc = "ingest"
    /\ \E ids \in SUBSET CustIds :
        /\ Customer = {[customer_id |-> c, event_time |-> T0,
                        last_name |-> "A", adr_city |-> "X",
                        adr_state |-> "S"] : c \in ids}
        /\ \E vs \in VisitLists(ids) :
            /\ Len(vs) <= MaxLoadedVisits
            /\ SiteVisit =
                 {[page_id |-> PageNames[j], event_time |-> vs[j][2],
                   customer_id |-> vs[j][1]] : j \in 1..Len(vs)}
        /\ \E os \in OrderLists(ids) :
            Orders = {[order_id |-> OrderNames[j], event_time |-> T0,
                       customer_id |-> os[j][1],
                       total_amount |-> os[j][2]] : j \in 1..Len(os)}
    /\ ImageUploaded = {}
    /\ i = Cardinality(Customer) + Cardinality(SiteVisit)
             + Cardinality(Orders) + 1
    /\ n = i + 1
    /\ ev = Ev("PAGE_VIEW", Absent, "x1", T0, "c1", Absent, Absent, Absent,
               Absent, Absent)
    /\ customer_LTV = {}
    /\ top_n = TOP_N
    /\ topX = <<>>
    /\ runs = 0
    /\ history = FALSE
    /\ dropped = {}

SpecTail == InitTail /\ [][Next]_vars

(***************************************************************************)
(* The run of Spec with the history of the dropped events recorded.        *)
(***************************************************************************)
InitHistory ==
    /\ pc = "ingest"
    /\ n \in 0..MaxEvents
    /\ i = 0
    /\ ev = NoEvent
    /\ Customer = {}
    /\ SiteVisit = {}
    /\ ImageUploaded = {}
    /\ Orders = {}
    /\ customer_LTV = {}
    /\ top_n = TOP_N
    /\ topX = <<>>
    /\ runs = 0
    /\ history = TRUE
    /\ dropped = {}

SpecHistory == InitHistory /\ [][Next]_vars

(***************************************************************************)
(* The aggregation run again on the same database: after a run over a      *)
(* loaded database, Ingest dispatches the one event of a further event     *)
(* list and calls build_LTV_table once more (customer_LTV keeps the rows    *)
(* of the earlier run: no statement of build_LTV_table deletes them).       *)
(***************************************************************************)
Rerun ==
    /\ pc = "done"
    /\ runs < MaxRuns
    /\ pc' = "ingest"
    /\ n' = n + 1
    /\ UNCHANGED <<i, ev, tables, customer_LTV, top_n, topX, runs, history,
                   dropped>>

InitRerun ==
    /\ InitLTV
    /\ top_n = TOP_N
    /\ Cardinality(SiteVisit) <= MaxLoadedVisits

NextRerun ==
    \/ IngestCustomer
    \/ IngestSiteVisit
    \/ IngestImage
    \/ IngestOrder
    \/ IngestOther
    \/ build_LTV_table
    \/ TopXSimpleLTVCustomers
    \/ Rerun

SpecRerun == InitRerun /\ [][NextRerun]_vars

(***************************************************************************)
(* Properties.                                                             *)
(***************************************************************************)
CustomerKeys == {r.customer_id : r \in Customer}

\* the step dispatches one event: ev' is event_dict[i]
Dispatched == i' = i + 1

\* C1: a SITE_VISIT, IMAGE or ORDER NEW event whose customer_id is not a
\* key of the Customer collection when it is processed is rejected: the
\* SiteVisit, Image and Order collections are the same after the event as
\* before it, and the events after it are still processed.  (Stated for
\* the events that carry a key; an event without one is the case of C3.)
C1_UnknownCustomerRejected ==
    [][ ( /\ Dispatched
          /\ ev'.key # Absent
          /\ \/ ev'.type \in {"SITE_VISIT", "IMAGE"}
             \/ ev'.type = "ORDER" /\ ev'.verb = "NEW"
          /\ ev'.customer_id \notin CustomerKeys )
        => ( /\ SiteVisit' = SiteVisit
             /\ ImageUploaded' = ImageUploaded
             /\ Orders' = Orders
             /\ pc' = "ingest" ) ]_vars

\* C2: in every reachable state every row of SiteVisit, ImageUploaded and
\* Orders has a customer_id that is the key of a row of Customer.
C2_ReferencesResolve ==
    \A r \in SiteVisit \cup ImageUploaded \cup Orders :
        r.customer_id \in CustomerKeys

\* C3: a failure while handling one event never aborts the run: no error
\* of the handling of an event leaves the dispatch loop, whatever the
\* event lacks (its verb, its key), so the run never ends at exit(100).
C3_NoErrorEscapes == pc # "exit"

\* the value a field has after an UPDATE that carries value v for it
Patched(old, v) == IF v # Absent /\ v # "" THEN v ELSE old

\* C4: a CUSTOMER UPDATE event for an existing key sets each of event_time,
\* last_name, adr_city, adr_state to the payload value exactly when the
\* field is present and non-empty; every other field of that customer
\* (its customer_id) keeps its value and no other row of any collection
\* changes.
C4_CustomerUpdateSetsFields ==
    [][ \A r \in Customer :
          ( /\ Dispatched
            /\ ev'.type = "CUSTOMER" /\ ev'.verb = "UPDATE"
            /\ ev'.key = r.customer_id )
          => ( /\ Customer' =
                    (Customer \ {r}) \cup
                    {[customer_id |-> r.customer_id,
                      event_time |-> Patched(r.event_time, ev'.event_time),
                      last_name |-> Patched(r.last_name, ev'.last_name),
                      adr_city |-> Patched(r.adr_city, ev'.adr_city),
                      adr_state |-> Patched(r.adr_state, ev'.adr_state)]}
               /\ UNCHANGED <<SiteVisit, ImageUploaded, Orders,
                              customer_LTV>> ) ]_vars

\* C4 for the payloads that carry no field named customer_id (the partial
\* update of section 8 of the specification).
C4_CustomerPartialUpdate ==
    [][ \A r \in Customer :
          ( /\ Dispatched
            /\ ev'.type = "CUSTOMER" /\ ev'.verb = "UPDATE"
            /\ ev'.key = r.customer_id
            /\ ev'.customer_id = Absent )
          => ( /\ Customer' =
                    (Customer \ {r}) \cup
                    {[customer_id |-> r.customer_id,
                      event_time |-> Patched(r.event_time, ev'.event_time),
                      last_name |-> Patched(r.last_name, ev'.last_name),
                      adr_city |-> Patched(r.adr_city, ev'.adr_city),
                      adr_state |-> Patched(r.adr_state, ev'.adr_state)]}
               /\ UNCHANGED <<SiteVisit, ImageUploaded, Orders,
                              customer_LTV>> ) ]_vars

\* C4_CustomerPartialUpdate witness: after NEW {last_name A, adr_city X} an UPDATE that carries
\* only adr_city Y has left last_name A and adr_city Y.
C4_Witness ==
    /\ ev.type = "CUSTOMER" /\ ev.verb = "UPDATE" /\ ev.key = "c1"
    /\ ev.adr_city = "Y" /\ ev.last_name = "" /\ ev.customer_id = Absent
    /\ \E r \in Customer :
        /\ r.customer_id = "c1"
        /\ r.last_name = "A" /\ r.adr_city = "Y" /\ r.adr_state = "S"

\* C5: a CUSTOMER or ORDER UPDATE event whose key has no row leaves every
\* collection unchanged and raises no fatal error; the next events are
\* processed.
C5_UpdateOfMissingKeyIsNoOp ==
    [][ ( /\ Dispatched
          /\ ev'.verb = "UPDATE"
          /\ ev'.key # Absent
          /\ \/ ev'.type = "CUSTOMER" /\ ev'.key \notin CustomerKeys
             \/ /\ ev'.type = "ORDER"
                /\ \A r \in Orders : r.order_id # ev'.key )
        => ( /\ UNCHANGED <<Customer, SiteVisit, ImageUploaded, Orders,
                            customer_LTV>>
             /\ pc' = "ingest" ) ]_vars

\* C5 witness: such an UPDATE was processed while the store held rows, and
\* events remain.
C5_Witness ==
    /\ ev.verb = "UPDATE" /\ ev.type = "ORDER" /\ ev.key = "o2"
    /\ ev.total_amount = "50"
    /\ \A r \in Orders : r.order_id # "o2"
    /\ Orders # {}
    /\ pc = "ingest" /\ i < n

\* C6: an ORDER UPDATE event for an existing order applies the non-empty
\* event_time and total_amount of the payload (total_amount a number) to
\* the order and leaves the customer_id of the order as it was, whatever
\* customer_id the payload carries.
C6_OrderUpdateApplied ==
    [][ \A r \in Orders :
          ( /\ Dispatched
            /\ ev'.type = "ORDER" /\ ev'.verb = "UPDATE"
            /\ ev'.key = r.order_id
            /\ r.customer_id \in CustomerKeys )
          => \E q \in Orders' :
                /\ q.customer_id = r.customer_id
                /\ q.event_time = Patched(r.event_time, ev'.event_time)
                /\ q.total_amount =
                     IF ev'.total_amount \in {Absent, ""}
                     THEN r.total_amount
                     ELSE AmountValue(ev'.total_amount)
                /\ Orders' \ {q} = Orders \ {r} ]_vars

KnownTypes == {"CUSTOMER", "SITE_VISIT", "IMAGE", "ORDER"}

\* C12: an event whose type is none of CUSTOMER, SITE_VISIT, IMAGE, ORDER
\* (or that has no type) is skipped silently: every collection is the same
\* after it as before it, no error is raised, and the events after it are
\* still processed.
C12_UnknownTypeSkipped ==
    [][ (Dispatched /\ ev'.type \notin KnownTypes)
        => ( /\ UNCHANGED <<Customer, SiteVisit, ImageUploaded, Orders,
                            customer_LTV>>
             /\ pc' = "ingest" ) ]_vars

\* C12 witness: an event without a type was dispatched while the store
\* held a customer; the loop goes on and events remain.
C12_Witness ==
    /\ ev.type = Absent
    /\ i >= 2
    /\ Customer # {}
    /\ pc = "ingest" /\ i < n

\* the rows of the collection of events of type ty that have key k and
\* customer_id c
RecordsOf(ty, k, c) ==
    CASE ty = "SITE_VISIT" ->
            {r \in SiteVisit : r.page_id = k /\ r.customer_id = c}
      [] ty = "IMAGE" ->
            {r \in ImageUploaded : r.image_id = k /\ r.customer_id = c}
      [] OTHER -> {r \in Orders : r.order_id = k /\ r.customer_id = c}

\* C14: a rejected dependent event is dropped, not deferred: a SITE_VISIT,
\* IMAGE or ORDER event processed before the NEW event of its customer has
\* no record in any later state, also after that customer's NEW event,
\* unless another event that carries the same key is ingested later.
C14_DroppedStaysAbsent ==
    \A d \in dropped : RecordsOf(d[1], d[2], d[3]) = {}

(***************************************************************************)
(* Properties of the aggregation and of the top-N query.                   *)
(***************************************************************************)
Aggregated == pc \in {"topx", "done"}

RowsOf(c) == {r \in customer_LTV : r.Customer_id = c}

\* weeks_active > 0: the visit times of c are dates and two of them differ
ActiveWeeksPositive(c) ==
    /\ \A v \in SiteVisit : v.customer_id = c => v.event_time \in Dates
    /\ \E v, w \in SiteVisit :
        /\ v.customer_id = c /\ w.customer_id = c
        /\ v.event_time # w.event_time

\* C7: after the aggregation a customer has an LTVRecord if and only if it
\* is in Customer, has at least one SiteVisit row, has weeks_active > 0 and
\* has at least one Orders row; no customer has more than one LTVRecord.
C7_RecordIffEligible ==
    Aggregated =>
        \A c \in CustIds :
            /\ (RowsOf(c) # {}) <=>
                 ( /\ c \in CustomerKeys
                   /\ \E v \in SiteVisit : v.customer_id = c
                   /\ ActiveWeeksPositive(c)
                   /\ \E o \in Orders : o.customer_id = c )
            /\ Cardinality(RowsOf(c)) <= 1

\* C7 witness: one customer of the store has a record, and the other has
\* orders and a single visit, and has none.
C7_Witness ==
    /\ Aggregated
    /\ RowsOf("c1") # {}
    /\ RowsOf("c2") = {}
    /\ \E o \in Orders : o.customer_id = "c2"
    /\ Cardinality({v \in SiteVisit : v.customer_id = "c2"}) = 1

\* the day span of the visits of c: latest visit day - earliest visit day
DaySpan(c) ==
    LET days == {julianday(v.event_time) : v \in VisitsOf(c)}
    IN  (CHOOSE d \in days : \A x \in days : x <= d)
        - (CHOOSE d \in days : \A x \in days : d <= x)

\* r.CLV = 52 * q * (visit_count / (span / 7)) * 10, for the integer q
ClvIs(r, q) ==
    r.CLV.num * DaySpan(r.Customer_id)
        = r.CLV.den * (52 * q * NoOfVisits(r.Customer_id) * 7 * 10)

\* C8 as stated: for every LTVRecord and all order amounts, CLV =
\* 52 * floor(total_expenditure / visit_count) * (visit_count /
\* weeks_active) * 10 with weeks_active = (latest - earliest visit day) / 7.
C8_ClvWithFloor ==
    \A r \in customer_LTV :
        ClvIs(r, SumAmounts(OrdersOf(r.Customer_id))
                    \div NoOfVisits(r.Customer_id))

\* the quotient a / b rounded toward zero, b > 0
TowardZero(a, b) == IF a < 0 THEN 0 - ((0 - a) \div b) ELSE a \div b

\* C8 amended: CLV = 52 * trunc(total_expenditure / visit_count) *
\* (visit_count / weeks_active) * 10, trunc rounding toward zero (the floor
\* for a total_expenditure >= 0 only); 4 visits over 21 days with orders
\* summing to 300 give visit_count 4, weeks_active 3 and CLV 52000.
C8_ClvWithTruncation ==
    \A r \in customer_LTV :
        /\ ClvIs(r, TowardZero(SumAmounts(OrdersOf(r.Customer_id)),
                               NoOfVisits(r.Customer_id)))
        /\ r.NoOfWeeks.num * 7 = r.NoOfWeeks.den * DaySpan(r.Customer_id)
        /\ ( /\ NoOfVisits(r.Customer_id) = 4
             /\ DaySpan(r.Customer_id) = 21
             /\ SumAmounts(OrdersOf(r.Customer_id)) = 300 )
           => ( /\ r.NoofVisits = 4
                /\ r.NoOfWeeks = FromInt(3)
                /\ r.ExpenditurePerVisit = FromInt(75)
                /\ r.CLV = FromInt(52000) )

\* C8 witness: a record of a customer whose negative total_expenditure is
\* no multiple of its visit count.
C8_Witness ==
    \E r \in customer_LTV :
        /\ r.total_expenditure < 0
        /\ r.total_expenditure % r.NoofVisits # 0
        /\ r.NoOfWeeks.den # 1

Min(a, b) == IF a < b THEN a ELSE b

\* C9: the top-N query returns min(N, number of LTVRecords) pairs
\* (customer_id, CLV), each of an LTVRecord, no customer twice, the CLV
\* values non-increasing, and no record left out has a CLV greater than a
\* returned one; N = 0 returns the empty sequence.
C9_TopN ==
    pc = "done" =>
        /\ Len(topX) = Min(top_n, Cardinality(customer_LTV))
        /\ \A j \in 1..Len(topX) :
            \E r \in customer_LTV :
                r.Customer_id = topX[j][1] /\ r.CLV = topX[j][2]
        /\ \A j, k \in 1..Len(topX) : j # k => topX[j][1] # topX[k][1]
        /\ \A j, k \in 1..Len(topX) :
            j < k => ~RatLess(topX[j][2], topX[k][2])
        /\ \A r \in customer_LTV :
            (\A j \in 1..Len(topX) : topX[j][1] # r.Customer_id)
            => \A j \in 1..Len(topX) : ~RatLess(topX[j][2], r.CLV)
        /\ top_n = 0 => topX = <<>>

\* C9 witness: top 1 of two records of different CLV.
C9_Witness ==
    /\ pc = "done"
    /\ top_n = 1
    /\ Len(topX) = 1
    /\ \E r, q \in customer_LTV : RatLess(r.CLV, q.CLV)

\* C10: the aggregation begins only after every event of the input was
\* dispatched, the events being handled one at a time in input order; no
\* LTVRecord is written while an event remains, and the top-N query runs
\* only after the aggregation.
C10_Barrier ==
    [][ /\ (pc = "ingest" /\ pc' = "topx") => (i = n /\ i' = n)
        /\ customer_LTV' # customer_LTV => (i = n /\ pc = "ingest")
        /\ topX' # topX => (pc = "topx" /\ i = n)
        /\ pc' = "done" => pc \in {"topx", "done"}
        /\ i' # i => (i' = i + 1 /\ i < n /\ pc = "ingest") ]_vars

\* C10 witness: a run of several events that ended with an LTVRecord and
\* the top-N result.
C10_Witness ==
    /\ pc = "done"
    /\ n >= 2 /\ i = n
    /\ customer_LTV # {}
    /\ Len(topX) = 1

\* the keys of the rows of the collection of the events of type ty
KeysOf(ty) ==
    CASE ty = "CUSTOMER" -> {r.customer_id : r \in Customer}
      [] ty = "SITE_VISIT" -> {r.page_id : r \in SiteVisit}
      [] ty = "IMAGE" -> {r.image_id : r \in ImageUploaded}
      [] ty = "ORDER" -> {r.order_id : r \in Orders}
      [] OTHER -> {}

\* no two rows of a collection have the same key
UniqueKeys ==
    /\ \A r, q \in Customer : r.customer_id = q.customer_id => r = q
    /\ \A r, q \in SiteVisit : r.page_id = q.page_id => r = q
    /\ \A r, q \in ImageUploaded : r.image_id = q.image_id => r = q
    /\ \A r, q \in Orders : r.order_id = q.order_id => r = q

\* C18: keys are unique per collection and an insert never overwrites: a
\* CUSTOMER NEW, ORDER NEW, SITE_VISIT or IMAGE event whose key is already
\* in its collection is rejected: the existing row keeps its values, the
\* whole store is unchanged and the later events are processed; so every
\* collection has at most one row per key in every reachable state.
C18_InsertNeverOverwrites ==
    [][ /\ ( /\ Dispatched
             /\ \/ ev'.type \in {"SITE_VISIT", "IMAGE"}
                \/ ev'.type \in {"CUSTOMER", "ORDER"} /\ ev'.verb = "NEW"
             /\ ev'.key \in KeysOf(ev'.type) )
           => ( /\ UNCHANGED <<Customer, SiteVisit, ImageUploaded, Orders,
                               customer_LTV>>
                /\ pc' = "ingest" )
        /\ UniqueKeys' ]_vars

\* C18 witness: a CUSTOMER NEW event (adr_city X) for the key of a customer
\* whose adr_city an UPDATE had set to Y was dispatched; the row still has
\* Y, and events remain.
C18_Witness ==
    /\ ev.type = "CUSTOMER" /\ ev.verb = "NEW" /\ ev.key = "c1"
    /\ ev.adr_city = "X" /\ ev.last_name = "A"
    /\ \E r \in Customer : r.customer_id = "c1" /\ r.adr_city = "Y"
    /\ Cardinality(Customer) = 1
    /\ pc = "ingest" /\ i < n

\* C19: an UPDATE never changes identity: after a CUSTOMER or ORDER UPDATE
\* event with any payload (a field named customer_id on a CUSTOMER event
\* and order_id on an ORDER event included) the customer_ids of Customer
\* and the order_ids of Orders are the ones before it; no row is added,
\* removed or re-keyed.
C19_UpdateKeepsIdentity ==
    [][ ( /\ Dispatched
          /\ ev'.type \in {"CUSTOMER", "ORDER"}
          /\ ev'.verb = "UPDATE" )
        => ( /\ {r.customer_id : r \in Customer'}
                  = {r.customer_id : r \in Customer}
             /\ {r.order_id : r \in Orders'} = {r.order_id : r \in Orders}
             /\ Cardinality(Customer') = Cardinality(Customer)
             /\ Cardinality(Orders') = Cardinality(Orders) ) ]_vars

\* the customers that a SiteVisit or Orders row references
ReferencedBarImages == {r.customer_id : r \in SiteVisit \cup Orders}

\* every event changes at most the collection of its own type, and no
\* event changes customer_LTV
OwnCollectionOnly ==
    /\ ev'.type = "CUSTOMER" => UNCHANGED <<SiteVisit, ImageUploaded, Orders>>
    /\ ev'.type = "SITE_VISIT" => UNCHANGED <<Customer, ImageUploaded, Orders>>
    /\ ev'.type = "IMAGE" => UNCHANGED <<Customer, SiteVisit, Orders>>
    /\ ev'.type = "ORDER" => UNCHANGED <<Customer, SiteVisit, ImageUploaded>>
    /\ customer_LTV' = customer_LTV

\* C20: an event changes at most the collection of its own entity type: a
\* CUSTOMER, SITE_VISIT, IMAGE or ORDER event, accepted or rejected,
\* leaves the three other collections unchanged; no ingestion step writes
\* customer_LTV; and the LTVRecords do not depend on the IMAGE events: an
\* IMAGE event changes none of Customer, SiteVisit, Orders, and what a
\* later event does to them is what it would do with no image stored.
C20_OwnCollectionImagesApart ==
    [][ Dispatched
        => /\ OwnCollectionOnly
           /\ (ev'.type = "CUSTOMER" /\ ev'.verb = "UPDATE")
              => Customer' = CustomerUpdateGiven(ev', ReferencedBarImages).rows
      ]_vars

\* the ids returned by the top-N query
TopIds == {topX[j][1] : j \in 1..Len(topX)}

\* all the visits of c have one timestamp (c has at least one visit)
OneTimestamp(c) ==
    /\ \E v \in SiteVisit : v.customer_id = c
    /\ \A v, w \in SiteVisit :
        (v.customer_id = c /\ w.customer_id = c)
        => v.event_time = w.event_time

TimesUninterpretable(c) ==
    \E v \in SiteVisit :
        /\ v.customer_id = c
        /\ v.event_time \notin Dates
        /\ \/ \A w \in SiteVisit : w.customer_id = c
                    => TextRank(w.event_time) <= TextRank(v.event_time)
           \/ \A w \in SiteVisit : w.customer_id = c
                    => TextRank(v.event_time) <= TextRank(w.event_time)

\* C17: a failure while the LTV of one customer is computed (its
\* weeks_active undefined: its visit times are no dates) skips that
\* customer only: it has no LTVRecord, the aggregation goes on, and every
\* other customer with a visit, weeks_active > 0 and an order has its
\* LTVRecord, whatever the order of the scan.
C17_FailureSkipsOneCustomer ==
    Aggregated =>
        \A d \in CustomerKeys :
            (TimesUninterpretable(d) /\ \E o \in Orders : o.customer_id = d)
            => /\ RowsOf(d) = {}
               /\ \A c \in CustomerKeys \ {d} :
                    ( /\ ActiveWeeksPositive(c)
                      /\ \E o \in Orders : o.customer_id = c )
                    => RowsOf(c) # {}

\* C17 witness: the computation failed for c1 (an order, a visit of no
\* date), and c2 has its record.
C17_Witness ==
    /\ Aggregated
    /\ "c1" \in CustomerKeys
    /\ TimesUninterpretable("c1")
    /\ \E o \in Orders : o.customer_id = "c1"
    /\ RowsOf("c1") = {}
    /\ RowsOf("c2") # {}

(***************************************************************************)
(* Properties of a database aggregated more than once.                     *)
(***************************************************************************)
\* the table a single run of build_LTV_table over the current store leaves
\* when it starts from an empty customer_LTV
FreshLTV == {LTVRow(c) : c \in Inserted({})}

\* C11: an aggregation run replaces and never merges: when the aggregation
\* has run, the store has changed and the aggregation has run again,
\* customer_LTV is the table a single run over the current store leaves
\* from an empty customer_LTV; it keeps no record and no value of the
\* earlier run.
C11_RerunReplaces == Aggregated => customer_LTV = FreshLTV

\* the sum of the total_amount of the rows of a set of Orders rows
RECURSIVE AmountSum(_)
AmountSum(rows) ==
    IF rows = {} THEN 0
    ELSE LET r == CHOOSE x \in rows : TRUE
         IN  AmountSum(rows \ {r}) + r.total_amount

\* C15: every LTVRecord has as visit_count the number of SiteVisit rows of
\* its customer and as total_expenditure the sum of total_amount over the
\* Orders rows of its customer in the final store: an order whose amount a
\* later ORDER UPDATE changed counts with its latest amount only, and a
\* rejected event counts for nothing.
C15_CountsOfFinalStore ==
    Aggregated =>
        \A r \in customer_LTV :
            /\ r.NoofVisits =
                 Cardinality({v \in SiteVisit : v.customer_id = r.Customer_id})
            /\ r.total_expenditure =
                 AmountSum({o \in Orders : o.customer_id = r.Customer_id})

\* C15 witness: the last event was an ORDER UPDATE that changed the amount
\* of an order to 50, and the record of its customer has the total 50.
C15_Witness ==
    /\ Aggregated
    /\ ev.type = "ORDER" /\ ev.verb = "UPDATE" /\ ev.total_amount = "50"
    /\ \E o \in Orders : \E r \in customer_LTV :
        /\ o.order_id = ev.key /\ o.total_amount = 50
        /\ r.Customer_id = o.customer_id
        /\ r.total_expenditure = 50

====
